---- MODULE Spec2Model ----
(***************************************************************************)
(* Model of python/ray/train/lightning/_lightning_utils.py:                *)
(*   - load_checkpoint            (checkpoint loader)                      *)
(*   - TrainReportCheckpointLogger (metric report bridge)                  *)
(*   - TorchIterableDataset / process_datasets (dataset adapter)           *)
(*                                                                         *)
(* Python objects are tagged records [tag, ref] so that values of          *)
(* different Python types can sit in the same dictionary.  Mutable objects *)
(* (module instances, iterators) live in stores indexed by their ref.      *)
(***************************************************************************)
EXTENDS Integers, Sequences, FiniteSets, TLC

VARIABLES
    heap,        \* LightningModule instances: Seq of [cls, params, weights]
    last,        \* record of the most recent load_checkpoint call
    logger,      \* TrainReportCheckpointLogger fields: _model, _model_params
    ctorArgs,    \* arguments __init__ of the logger was called with (history)
    reports,     \* session.report calls received by the coordinator
    logCalls,    \* log_metrics calls made by the framework (history)
    datamodule,  \* what LightningDataModule.from_datasets was called with
    pdArgs,      \* arguments of the last process_datasets call (history)
    iters,       \* iterator objects returned by iter_torch_batches
    iterCalls,   \* number of iter_torch_batches invocations per shard
    runs         \* iterations of the wrapped datasets driven by the framework

vars == <<heap, last, logger, ctorArgs, reports, logCalls,
          datamodule, pdArgs, iters, iterCalls, runs>>

loaderVars  == <<last>>
loggerVars  == <<logger, ctorArgs, reports, logCalls>>
datasetVars == <<datamodule, pdArgs, iters, iterCalls, runs>>

----------------------------------------------------------------------------
(* Bounds *)

MaxHeap    == 2    \* module instances alive at once
MaxReports == 2    \* log_metrics calls in a run
MaxEpochs  == 2    \* iterations over one wrapped dataset

----------------------------------------------------------------------------
(* Reserved keys *)

MODEL_KEY        == "model"
PREPROCESSOR_KEY == "preprocessor"
MODEL_PARAMS_KEY == "model_params"
MODEL_CLS_KEY    == "model_cls"

Keys == {MODEL_KEY, MODEL_PARAMS_KEY, MODEL_CLS_KEY, PREPROCESSOR_KEY}

----------------------------------------------------------------------------
(* Python values *)

None          == [tag |-> "None", ref |-> 0]
Cls(c)        == [tag |-> "class", ref |-> c]
Inst(i)       == [tag |-> "instance", ref |-> i]
StateDict(w)  == [tag |-> "state_dict", ref |-> w]
Params(p)     == [tag |-> "params", ref |-> p]
Prep(p)       == [tag |-> "preprocessor", ref |-> p]
IntVal(n)     == [tag |-> "int", ref |-> n]

ClassIds   == {1, 2}     \* LightningModule subclasses
ParamIds   == {1}        \* constructor-parameter dictionaries stored in payloads
OwnParams  == 0          \* parameters the caller built its own module with
WeightIds  == {1, 2}     \* trained state dicts
PrepIds    == {1}        \* preprocessors
InitWeights == 0         \* weights of a freshly constructed module

isclass(x) == x.tag = "class"

----------------------------------------------------------------------------
(* Checkpoint: Checkpoint.from_dict / Checkpoint.to_dict *)

from_dict(d) == [tag |-> "Checkpoint", data |-> d]
to_dict(c)   == c.data

\* partial functions Keys -> values, each key holding a value of its type
Payloads ==
    LET opt(S) == {<<FALSE, None>>} \cup {<<TRUE, v>> : v \in S}
        W == opt({StateDict(w) : w \in WeightIds})
        P == opt({Params(p) : p \in ParamIds})
        C == opt({Cls(c) : c \in ClassIds})
        R == opt({Prep(p) : p \in PrepIds})
        val(k, w, p, c, r) == IF k = MODEL_KEY THEN w[2]
                              ELSE IF k = MODEL_PARAMS_KEY THEN p[2]
                              ELSE IF k = MODEL_CLS_KEY THEN c[2]
                              ELSE r[2]
        dom(w, p, c, r) == {k \in Keys :
                               \/ k = MODEL_KEY /\ w[1]
                               \/ k = MODEL_PARAMS_KEY /\ p[1]
                               \/ k = MODEL_CLS_KEY /\ c[1]
                               \/ k = PREPROCESSOR_KEY /\ r[1]}
    IN {[k \in dom(w, p, c, r) |-> val(k, w, p, c, r)] :
            w \in W, p \in P, c \in C, r \in R}

ModuleArgs(nInst) ==
    {None} \cup {Cls(c) : c \in ClassIds} \cup {Inst(i) : i \in 1..nInst}

----------------------------------------------------------------------------
(* load_checkpoint *)

\* variant: the lookup reads the weights key instead of the preprocessor key
GetPreprocessor_wrongKey(d) ==
    IF MODEL_KEY \in DOMAIN d THEN d[MODEL_KEY] ELSE None

\* line 107: checkpoint_dict.get(PREPROCESSOR_KEY, None)
GetPreprocessor(d) ==
    IF PREPROCESSOR_KEY \in DOMAIN d THEN d[PREPROCESSOR_KEY] ELSE None

\* line 108
required_keys == <<MODEL_KEY, MODEL_PARAMS_KEY>>

\* variant: the membership test is made on the parameters key
KeyCheckFails_paramsKey(d, required_key) == MODEL_PARAMS_KEY \notin DOMAIN d

\* line 110: the membership test made for loop variable required_key
KeyCheckFails(d, required_key) == MODEL_KEY \notin DOMAIN d

\* lines 109-115: index of the first required key whose test fails, 0 if none
FirstFailing(d) ==
    LET bad == {i \in 1..Len(required_keys) : KeyCheckFails(d, required_keys[i])}
    IN IF bad = {} THEN 0 ELSE CHOOSE i \in bad : \A j \in bad : i <= j

\* variant: the embedded class reference is never looked up
ResolveModule_noLookup(d, pl_module) == pl_module

\* variant: an embedded class reference takes precedence over the argument
ResolveModule_embeddedFirst(d, pl_module) ==
    IF MODEL_CLS_KEY \in DOMAIN d THEN d[MODEL_CLS_KEY] ELSE pl_module

\* lines 116-125: the model reference used; None stands for the ValueError
ResolveModule(d, pl_module) ==
    IF pl_module = None
    THEN IF MODEL_CLS_KEY \in DOMAIN d THEN d[MODEL_CLS_KEY] ELSE None
    ELSE pl_module

\* variant: the class is called without the stored parameters
Instantiate_noParams(h, cls, model_params) ==
    Append(h, [cls |-> cls.ref, params |-> OwnParams, weights |-> InitWeights])

\* line 128: pl_module(**model_params) allocates a new instance
Instantiate(h, cls, model_params) ==
    Append(h, [cls |-> cls.ref, params |-> model_params.ref,
               weights |-> InitWeights])

\* line 129: pl_module.load_state_dict(state) mutates the instance in place
load_state_dict(h, inst, state) ==
    [h EXCEPT ![inst.ref].weights = state.ref]

Raised(exc, key, h, made) ==
    [outcome |-> exc, key |-> key, model |-> None, preprocessor |-> None,
     heap |-> h, instantiated |-> made, loaded |-> <<>>]

\* lines 129-130
LoadAndReturn(h, d, inst, preprocessor, made) ==
    IF MODEL_KEY \notin DOMAIN d
    THEN Raised("KeyError", MODEL_KEY, h, made)
    ELSE [outcome |-> "returned", key |-> "", model |-> inst,
          preprocessor |-> preprocessor,
          heap |-> load_state_dict(h, inst, d[MODEL_KEY]),
          instantiated |-> made,
          loaded |-> <<[ref |-> inst.ref, state |-> d[MODEL_KEY]]>>]

\* lines 126-130
Materialize(h, d, pl_module, preprocessor) ==
    IF isclass(pl_module)
    THEN IF MODEL_PARAMS_KEY \notin DOMAIN d
         THEN Raised("KeyError", MODEL_PARAMS_KEY, h, <<>>)
         ELSE LET model_params == d[MODEL_PARAMS_KEY]
                  h1 == Instantiate(h, pl_module, model_params)
                  made == <<[cls |-> pl_module, params |-> model_params,
                             ref |-> Len(h1)]>>
              IN LoadAndReturn(h1, d, Inst(Len(h1)), preprocessor, made)
    ELSE LoadAndReturn(h, d, pl_module, preprocessor, <<>>)

\* variant: the required keys are validated after the model was materialized
load_checkpoint_lateCheck(h, checkpoint, pl_module) ==
    LET checkpoint_dict == to_dict(checkpoint)
        preprocessor == GetPreprocessor(checkpoint_dict)
        failing == FirstFailing(checkpoint_dict)
        resolved == ResolveModule(checkpoint_dict, pl_module)
        m == Materialize(h, checkpoint_dict, resolved, preprocessor)
    IN IF resolved = None
       THEN Raised("ValueError", MODEL_CLS_KEY, h, <<>>)
       ELSE IF failing # 0
       THEN Raised("RuntimeError", required_keys[failing], m.heap,
                   m.instantiated)
       ELSE m

\* lines 106-130
load_checkpoint(h, checkpoint, pl_module) ==
    LET checkpoint_dict == to_dict(checkpoint)
        preprocessor == GetPreprocessor(checkpoint_dict)
        failing == FirstFailing(checkpoint_dict)
        resolved == ResolveModule(checkpoint_dict, pl_module)
    IN IF failing # 0
       THEN Raised("RuntimeError", required_keys[failing], h, <<>>)
       ELSE IF resolved = None
       THEN Raised("ValueError", MODEL_CLS_KEY, h, <<>>)
       ELSE Materialize(h, checkpoint_dict, resolved, preprocessor)

NoCall ==
    [checkpoint |-> from_dict(<<>>), pl_module |-> None, outcome |-> "none",
     key |-> "", model |-> None, preprocessor |-> None,
     instantiated |-> <<>>, loaded |-> <<>>]

\* a caller invokes load_checkpoint(checkpoint, pl_module)
LoadCheckpoint ==
    \E d \in Payloads, pl_module \in ModuleArgs(Len(heap)) :
        LET r == load_checkpoint(heap, from_dict(d), pl_module)
        IN /\ Len(r.heap) <= MaxHeap
           /\ heap' = r.heap
           /\ last' = [checkpoint |-> from_dict(d), pl_module |-> pl_module,
                       outcome |-> r.outcome, key |-> r.key,
                       model |-> r.model, preprocessor |-> r.preprocessor,
                       instantiated |-> r.instantiated, loaded |-> r.loaded]
           /\ UNCHANGED <<loggerVars, datasetVars>>

----------------------------------------------------------------------------
(* TrainReportCheckpointLogger *)

MetricsInputs == {[loss |-> 5], [loss |-> 3]}
StepInputs    == {None, IntVal(1)}

\* variant: the weights are those the model had when the logger was built
state_dict_atConstruction(h, model) == StateDict(InitWeights)

\* line 80: self._model.state_dict() reads the live model's weights
state_dict(h, model) == StateDict(h[model.ref].weights)

\* lines 78-83: the payload handed to Checkpoint.from_dict
BuildPayload(h, lg) ==
    [k \in {MODEL_KEY, MODEL_PARAMS_KEY} |->
        IF k = MODEL_KEY THEN state_dict(h, lg._model) ELSE lg._model_params]

\* line 84: session.report(metrics, checkpoint=checkpoint)
report(rs, metrics, checkpoint) ==
    Append(rs, [metrics |-> metrics, checkpoint |-> checkpoint])

\* lines 75-84
log_metrics(rs, h, lg, metrics, step) ==
    report(rs, metrics, from_dict(BuildPayload(h, lg)))

\* the framework calls logger.log_metrics(metrics, step)
LogMetrics ==
    \E metrics \in MetricsInputs, step \in StepInputs :
        /\ Len(logCalls) < MaxReports
        /\ reports' = log_metrics(reports, heap, logger, metrics, step)
        /\ logCalls' = Append(logCalls,
                              [metrics |-> metrics, step |-> step,
                               weights |-> heap[logger._model.ref].weights])
        /\ UNCHANGED <<heap, logger, ctorArgs, loaderVars, datasetVars>>

\* the training loop updates the weights of the live model the logger aliases
TrainStep ==
    \E w \in WeightIds :
        /\ heap[logger._model.ref].weights # w
        /\ heap' = [heap EXCEPT ![logger._model.ref].weights = w]
        /\ UNCHANGED <<loggerVars, loaderVars, datasetVars>>

----------------------------------------------------------------------------
(* TorchIterableDataset and process_datasets *)

DatasetNames == <<"train_dataset", "val_dataset", "test_dataset",
                  "predict_dataset">>

ShardBatches == {<<1, 2>>, <<3>>}
Shard(b)     == [tag |-> "Dataset", batches |-> b]
NoShard      == [tag |-> "None", batches |-> <<>>]
Shards       == {Shard(b) : b \in ShardBatches}
BatchSizes   == {None, IntVal(4)}

\* lines 40, 44, 48: truth value of a shard argument
Truthy(ds) == ds.tag # "None"

\* Dataset.iter_torch_batches(): a fresh one-shot iterator over the batches
iter_torch_batches(ds) == [batches |-> ds.batches, pos |-> 0]

\* lines 21-22: the wrapper stores the iterator object it was given
TorchIterableDataset(iterator) == [iterator |-> iterator]

\* variant: every shard argument gets an entry, absent or not
IncludedSlots_all(args) == 1..4

\* lines 37-51: positions of the arguments whose shard gets an entry
IncludedSlots(args) == {1} \cup {i \in 2..4 : Truthy(args[i])}

\* lines 37-54
process_datasets(args, batch_size) ==
    LET slots == IncludedSlots(args)
        rank(i) == Cardinality({j \in slots : j <= i})
        slotAt(n) == CHOOSE i \in slots : rank(i) = n
        its == [n \in 1..Cardinality(slots) |->
                    iter_torch_batches(args[slotAt(n)])]
        torch_datasets == [name \in {DatasetNames[i] : i \in slots} |->
            LET i == CHOOSE j \in slots : DatasetNames[j] = name
            IN TorchIterableDataset(rank(i))]
    IN [iters |-> its,
        calls |-> [i \in 1..4 |-> IF i \in slots THEN 1 ELSE 0],
        datamodule |-> [datasets |-> torch_datasets,
                        batch_size |-> batch_size,
                        num_workers |-> 0]]

NoRun == [active |-> FALSE, out |-> <<>>, done |-> <<>>]

\* the trainer calls process_datasets(train, val, test, predict, batch_size)
ProcessDatasets ==
    \E train \in Shards, val \in Shards \cup {NoShard},
       test \in Shards \cup {NoShard}, predict \in Shards \cup {NoShard},
       batch_size \in BatchSizes :
        LET args == <<train, val, test, predict>>
            r == process_datasets(args, batch_size)
        IN /\ ~pdArgs.called
           /\ pdArgs' = [called |-> TRUE, shards |-> args,
                         batch_size |-> batch_size]
           /\ datamodule' = r.datamodule
           /\ iters' = r.iters
           /\ iterCalls' = r.calls
           /\ runs' = [name \in DOMAIN r.datamodule.datasets |-> NoRun]
           /\ UNCHANGED <<heap, loaderVars, loggerVars>>

\* lines 24-25, generator creation: iter(wrapped) starts an iteration
IterBegin(name) ==
    /\ pdArgs.called
    /\ name \in DOMAIN datamodule.datasets
    /\ ~runs[name].active
    /\ Len(runs[name].done) < MaxEpochs
    /\ runs' = [runs EXCEPT ![name].active = TRUE, ![name].out = <<>>]
    /\ UNCHANGED <<datamodule, pdArgs, iters, iterCalls,
                   heap, loaderVars, loggerVars>>

\* line 25: yield from self.iterator hands over the iterator's next batch
IterNext(name) ==
    /\ pdArgs.called
    /\ name \in DOMAIN datamodule.datasets
    /\ runs[name].active
    /\ LET id == datamodule.datasets[name].iterator
           it == iters[id]
       IN /\ it.pos < Len(it.batches)
          /\ iters' = [iters EXCEPT ![id].pos = it.pos + 1]
          /\ runs' = [runs EXCEPT
                        ![name].out = Append(@, it.batches[it.pos + 1])]
    /\ UNCHANGED <<datamodule, pdArgs, iterCalls,
                   heap, loaderVars, loggerVars>>

\* line 25: the iterator is exhausted, the generator returns
IterEnd(name) ==
    /\ pdArgs.called
    /\ name \in DOMAIN datamodule.datasets
    /\ runs[name].active
    /\ LET it == iters[datamodule.datasets[name].iterator]
       IN it.pos = Len(it.batches)
    /\ runs' = [runs EXCEPT ![name].active = FALSE,
                            ![name].done = Append(@, runs[name].out),
                            ![name].out = <<>>]
    /\ UNCHANGED <<datamodule, pdArgs, iters, iterCalls,
                   heap, loaderVars, loggerVars>>

----------------------------------------------------------------------------
(* Specifications *)

InstancesInit ==
    {[cls |-> c, params |-> p, weights |-> InitWeights] :
        c \in ClassIds, p \in {1, 2}}

LoggerIdle ==
    /\ logger = [_model |-> None, _model_params |-> None]
    /\ ctorArgs = [model |-> None, model_params |-> None]
    /\ reports = <<>>
    /\ logCalls = <<>>

DatasetsIdle ==
    /\ datamodule = [datasets |-> <<>>, batch_size |-> None, num_workers |-> 0]
    /\ pdArgs = [called |-> FALSE,
                 shards |-> <<NoShard, NoShard, NoShard, NoShard>>,
                 batch_size |-> None]
    /\ iters = <<>>
    /\ iterCalls = [i \in 1..4 |-> 0]
    /\ runs = <<>>

\* a caller holding one module instance loads checkpoints
InitLoader ==
    /\ heap = <<[cls |-> 1, params |-> OwnParams, weights |-> InitWeights]>>
    /\ last = NoCall
    /\ LoggerIdle
    /\ DatasetsIdle

NextLoader == LoadCheckpoint
SpecLoader == InitLoader /\ [][NextLoader]_vars

\* lines 58-61: TrainReportCheckpointLogger(model, model_params) was built
InitLogger ==
    /\ \E m \in InstancesInit : heap = <<m>>
    /\ last = NoCall
    /\ \E p \in {1, 2} :
        /\ logger = [_model |-> Inst(1), _model_params |-> Params(p)]
        /\ ctorArgs = [model |-> Inst(1), model_params |-> Params(p)]
    /\ reports = <<>>
    /\ logCalls = <<>>
    /\ DatasetsIdle

NextLogger == LogMetrics \/ TrainStep
SpecLogger == InitLogger /\ [][NextLogger]_vars

InitDatasets ==
    /\ heap = <<>>
    /\ last = NoCall
    /\ LoggerIdle
    /\ DatasetsIdle

NextDatasets ==
    \/ ProcessDatasets
    \/ \E i \in 1..4 : IterBegin(DatasetNames[i])
    \/ \E i \in 1..4 : IterNext(DatasetNames[i])
    \/ \E i \in 1..4 : IterEnd(DatasetNames[i])
SpecDatasets == InitDatasets /\ [][NextDatasets]_vars

----------------------------------------------------------------------------
(* Properties of load_checkpoint *)

Called    == last.outcome # "none"
Payload   == to_dict(last.checkpoint)
Has(k)    == k \in DOMAIN Payload
HasRequired == Has(MODEL_KEY) /\ Has(MODEL_PARAMS_KEY)

\* C1: a payload without the parameters key makes load_checkpoint fail with
\* the missing-required-key RuntimeError and return no model; the error names
\* the parameters key (when the weights key is missing too, the weights key is
\* reported first, which is left to C2).
C1_MissingParamsKeyRejected ==
    (Called /\ ~Has(MODEL_PARAMS_KEY)) =>
        /\ last.outcome = "RuntimeError"
        /\ last.model = None
        /\ Has(MODEL_KEY) => last.key = MODEL_PARAMS_KEY

\* C2: a payload without the weights key makes load_checkpoint fail with the
\* RuntimeError naming the weights key, whatever pl_module and the other keys
\* are; the usage error is never raised for such a payload.
C2_MissingWeightsKeyRejected ==
    (Called /\ ~Has(MODEL_KEY)) =>
        /\ last.outcome = "RuntimeError"
        /\ last.key = MODEL_KEY
        /\ last.model = None

C2_Witness ==
    /\ Called
    /\ ~Has(MODEL_KEY)
    /\ Has(MODEL_PARAMS_KEY)
    /\ ~Has(MODEL_CLS_KEY)
    /\ last.pl_module = None
    /\ last.outcome = "RuntimeError"

\* C3: with both required keys present and pl_module = None, a payload without
\* an embedded class reference ends in the usage error and no model; with an
\* embedded class reference, that class is the one instantiated.
C3_ModuleResolution ==
    (Called /\ HasRequired /\ last.pl_module = None) =>
        IF ~Has(MODEL_CLS_KEY)
        THEN /\ last.outcome = "ValueError"
             /\ last.model = None
             /\ last.instantiated = <<>>
        ELSE /\ Len(last.instantiated) = 1
             /\ last.instantiated[1].cls = Payload[MODEL_CLS_KEY]

C3_Witness ==
    /\ Called
    /\ HasRequired
    /\ ~Has(MODEL_CLS_KEY)
    /\ last.pl_module = None
    /\ last.outcome = "ValueError"

\* C4: a payload with weights, parameters and an embedded class, loaded with
\* pl_module = None, instantiates the embedded class exactly once with the
\* stored parameters and returns that new instance carrying the stored weights.
C4_InstantiateFromEmbeddedClass ==
    (Called /\ HasRequired /\ Has(MODEL_CLS_KEY)
            /\ isclass(Payload[MODEL_CLS_KEY]) /\ last.pl_module = None) =>
        /\ last.outcome = "returned"
        /\ last.instantiated = <<[cls |-> Payload[MODEL_CLS_KEY],
                                  params |-> Payload[MODEL_PARAMS_KEY],
                                  ref |-> Len(heap)]>>
        /\ last.model = Inst(Len(heap))
        /\ heap[Len(heap)] = [cls |-> Payload[MODEL_CLS_KEY].ref,
                              params |-> Payload[MODEL_PARAMS_KEY].ref,
                              weights |-> Payload[MODEL_KEY].ref]

C4_Witness ==
    /\ Called
    /\ HasRequired
    /\ Has(MODEL_CLS_KEY)
    /\ last.pl_module = None
    /\ last.outcome = "returned"
    /\ Len(last.instantiated) = 1
    /\ heap[last.model.ref].cls # heap[1].cls

\* C5: a payload with both required keys loaded with an instance as pl_module
\* performs no instantiation, even with an embedded class; the stored weights
\* are loaded into that instance, which is returned, and nothing else of it or
\* of any other instance changes (its constructor parameters stay its own).
C5_InstanceLoadedInPlace ==
    [][LET d == to_dict(last'.checkpoint)
           pl == last'.pl_module
       IN (/\ last'.outcome # "none"
           /\ MODEL_KEY \in DOMAIN d
           /\ MODEL_PARAMS_KEY \in DOMAIN d
           /\ pl.tag = "instance") =>
               /\ last'.outcome = "returned"
               /\ last'.instantiated = <<>>
               /\ last'.model = pl
               /\ last'.loaded = <<[ref |-> pl.ref, state |-> d[MODEL_KEY]]>>
               /\ heap' = [heap EXCEPT ![pl.ref].weights = d[MODEL_KEY].ref]
      ]_vars

C5_Witness ==
    /\ Called
    /\ HasRequired
    /\ Has(MODEL_CLS_KEY)
    /\ last.pl_module.tag = "instance"
    /\ last.outcome = "returned"
    /\ heap[last.pl_module.ref].params # Payload[MODEL_PARAMS_KEY].ref
    /\ heap[last.pl_module.ref].cls # Payload[MODEL_CLS_KEY].ref

\* C9: a successful load returns the preprocessor stored under the
\* preprocessor key, or None without that key; the same call on the payload
\* without the preprocessor key has the same outcome, the same model and the
\* same effect on the instances.
C9_PreprocessorReturned ==
    [][last'.outcome # "none" =>
        LET d == to_dict(last'.checkpoint)
            bare == [k \in DOMAIN d \ {PREPROCESSOR_KEY} |-> d[k]]
            r == load_checkpoint(heap, from_dict(bare), last'.pl_module)
        IN /\ last'.outcome = "returned" =>
                last'.preprocessor =
                    IF PREPROCESSOR_KEY \in DOMAIN d
                    THEN d[PREPROCESSOR_KEY] ELSE None
           /\ r.outcome = last'.outcome
           /\ r.model = last'.model
           /\ r.heap = heap'
           /\ r.preprocessor = None
      ]_vars

C9_WitnessPresent ==
    /\ Called
    /\ last.outcome = "returned"
    /\ Has(PREPROCESSOR_KEY)
    /\ last.preprocessor = Prep(1)

\* C10: when load_checkpoint ends in the RuntimeError or the ValueError, no
\* class was instantiated, no weights were loaded and every instance is as it
\* was before the call.
C10_FailedLoadLeavesNoTrace ==
    [][last'.outcome \in {"RuntimeError", "ValueError"} =>
        /\ last'.instantiated = <<>>
        /\ last'.loaded = <<>>
        /\ last'.model = None
        /\ heap' = heap
      ]_vars

C10_Witness ==
    /\ last.outcome \in {"RuntimeError", "ValueError"}
    /\ last.pl_module.tag = "instance"
    /\ heap[last.pl_module.ref].weights # InitWeights

----------------------------------------------------------------------------
(* Properties of TrainReportCheckpointLogger *)

\* C6: the coordinator received one report per log_metrics call, in order;
\* the i-th report carries the metrics of the i-th call and a checkpoint whose
\* payload holds exactly the weights the model had at that call and the
\* parameters the logger was constructed with, and no class-reference key.
C6_OneReportPerLogCall ==
    /\ Len(reports) = Len(logCalls)
    /\ \A i \in 1..Len(reports) :
        LET d == to_dict(reports[i].checkpoint)
        IN /\ reports[i].metrics = logCalls[i].metrics
           /\ DOMAIN d = {MODEL_KEY, MODEL_PARAMS_KEY}
           /\ d[MODEL_KEY] = StateDict(logCalls[i].weights)
           /\ d[MODEL_PARAMS_KEY] = ctorArgs.model_params

C6_Witness ==
    /\ Len(reports) = 2
    /\ logCalls[1].weights # InitWeights
    /\ logCalls[2].weights # logCalls[1].weights
    /\ logCalls[2].metrics # logCalls[1].metrics

----------------------------------------------------------------------------
(* Properties of the dataset adapter *)

PresentNames ==
    {"train_dataset"} \cup
    {DatasetNames[i] : i \in {j \in 2..4 : pdArgs.shards[j] # NoShard}}

\* C7: the container built by process_datasets names exactly "train_dataset"
\* and the shards that were passed, has zero worker processes and the batch
\* size passed in.
C7_ContainerNamesPresentShards ==
    pdArgs.called =>
        /\ DOMAIN datamodule.datasets = PresentNames
        /\ datamodule.num_workers = 0
        /\ datamodule.batch_size = pdArgs.batch_size

C7_WitnessTrainOnly ==
    /\ pdArgs.called
    /\ \A i \in 2..4 : pdArgs.shards[i] = NoShard
    /\ DOMAIN datamodule.datasets = {"train_dataset"}
    /\ datamodule.batch_size = IntVal(4)

\* C8: every iteration over a wrapped dataset re-invokes the shard's
\* batch-producing sequence, so each completed iteration yields the shard's
\* full sequence of batches, the second the same as the first.
C8_EachIterationYieldsAllBatches ==
    pdArgs.called =>
        \A i \in 1..4 :
            LET name == DatasetNames[i]
            IN name \in DOMAIN runs =>
                \A k \in 1..Len(runs[name].done) :
                    /\ runs[name].done[k] = pdArgs.shards[i].batches
                    /\ runs[name].done[k] = runs[name].done[1]

====
